---- MODULE Spec2Model ----
(***************************************************************************)
(* Packing tracker (src/app.py): the cached pipeline build_joined_df and   *)
(* the per-shipment summary computed by the main script.                   *)
(*                                                                         *)
(* Text cells are sequences of one-character strings, so that str.strip    *)
(* and str.upper are computed and not assumed.  A missing cell (NaN) is    *)
(* the one-element sequence NaNCell, which is no text.                     *)
(***************************************************************************)
EXTENDS Integers, Sequences, FiniteSets, TLC

VARIABLES resi_bytes, sku_bytes, mapping_tuple, special_bytes, handling_bytes,
          pc, steps, error,
          df_resi, df_sku, special_set_norm, handling_map_norm,
          df, agg, df_base, df_shown, summary

vars == <<resi_bytes, sku_bytes, mapping_tuple, special_bytes, handling_bytes,
          pc, steps, error,
          df_resi, df_sku, special_set_norm, handling_map_norm,
          df, agg, df_base, df_shown, summary>>

inputs == <<resi_bytes, sku_bytes, mapping_tuple, special_bytes, handling_bytes>>

\* ------------------------------------------------------------------ bounds
\* Largest number of rows of the scan file.
MaxScans == 2

\* ------------------------------------------------------------ null values
\* pandas NaT / NaN in a numeric or datetime column (timestamps are >= 0).
NaT == -1
\* A missing text cell (NaN in an object column).
NaNCell == <<"<NaN>">>
\* Python None (an absent upload, or ONLY_SKU_NORM of a mixed shipment).
None == <<"<None>">>

\* ------------------------------------------------------------ text helpers
LowerChars == <<"a","b","c","d","e","f","g","h","i","j","k","l","m",
                "n","o","p","q","r","s","t","u","v","w","x","y","z">>
UpperChars == <<"A","B","C","D","E","F","G","H","I","J","K","L","M",
                "N","O","P","Q","R","S","T","U","V","W","X","Y","Z">>
Whitespace == {" ", "\t", "\n"}

\* str.upper, one character.
UpperCh(c) ==
    IF \E i \in 1..Len(LowerChars) : LowerChars[i] = c
    THEN UpperChars[CHOOSE i \in 1..Len(LowerChars) : LowerChars[i] = c]
    ELSE c

\* str.upper
Upper(s) == [i \in 1..Len(s) |-> UpperCh(s[i])]

\* str.strip: leading and trailing whitespace removed.
Strip(s) ==
    LET keep == {i \in 1..Len(s) : s[i] \notin Whitespace}
    IN  IF keep = {} THEN <<>>
        ELSE LET lo == CHOOSE i \in keep : \A j \in keep : i <= j
                 hi == CHOOSE i \in keep : \A j \in keep : j <= i
             IN  SubSeq(s, lo, hi)

\* astype(str) / str(x) of a text cell: NaN prints as "nan".
AsStr(cell) == IF cell = NaNCell THEN <<"n","a","n">> ELSE cell

\* _norm: str(s).upper().strip()
Norm(cell) == Strip(Upper(AsStr(cell)))

\* ---------------------------------------------------------- numeric helpers
RECURSIVE SetSum(_, _)
\* sum(f[x] for x in S)
SetSum(f, S) ==
    IF S = {} THEN 0
    ELSE LET x == CHOOSE y \in S : TRUE IN f[x] + SetSum(f, S \ {x})

RECURSIVE SeqSum(_)
SeqSum(s) == IF s = <<>> THEN 0 ELSE Head(s) + SeqSum(Tail(s))

RECURSIVE SelectSeq2(_, _)
\* the subsequence of s at the positions in keep (boolean mask indexing)
SelectSeq2(s, keep) ==
    IF s = <<>> THEN <<>>
    ELSE LET n == Len(s)
             init == SelectSeq2(SubSeq(s, 1, n - 1), keep)
         IN  IF n \in keep THEN Append(init, s[n]) ELSE init

Range(s) == {s[i] : i \in 1..Len(s)}

Max(a, b) == IF a >= b THEN a ELSE b

\* pd.to_numeric(cell, errors="coerce").fillna(0): a number stays, text that
\* is no number and a missing cell become 0.
NumCell(v) == [k |-> "num", v |-> v]
TextCell == [k |-> "text", v |-> 0]
MissingCell == [k |-> "nan", v |-> 0]
ToNumericFill0(cell) == IF cell.k = "num" THEN cell.v ELSE 0

\* ------------------------------------------------------------------ inputs
\* Headers of the two uploads, after columns.str.strip().str.upper().
ResiHeaders == {"TANGGAL", "JAM", "QC", "RESI"}
SkuHeaders == {"RESI", "KODE", "JUMLAH"}

\* A date cell pd.to_datetime accepts (day number, seconds into the day), or not.
DateCell(day, sec) == [k |-> "date", day |-> day, sec |-> sec]
BadDate == [k |-> "bad", day |-> 0, sec |-> 0]
\* A time cell: "H:MM", "H:MM:SS", or text that is neither.
HM(h, m) == [k |-> "hm", h |-> h, m |-> m, s |-> 0]
HMS(h, m, s) == [k |-> "hms", h |-> h, m |-> m, s |-> s]
BadTime == [k |-> "bad", h |-> 0, m |-> 0, s |-> 0]

ScanRow(tgl, jam, nama, resi) ==
    [c \in ResiHeaders |->
        CASE c = "TANGGAL" -> tgl
          [] c = "JAM"     -> jam
          [] c = "QC"      -> nama
          [] c = "RESI"    -> resi]

ItemRow(resi, sku, qty) ==
    [c \in SkuHeaders |->
        CASE c = "RESI"   -> resi
          [] c = "KODE"   -> sku
          [] c = "JUMLAH" -> qty]

\* Operator names in ascending string order (the order sort_values puts them in).
OperatorNames == <<"ANI", "BUDI">>

\* The rows a scan file is made of.
ScanRows ==
    { ScanRow(DateCell(1, 0), HM(9, 0), "ANI", <<"R","1">>),
      ScanRow(DateCell(1, 43200), HMS(9, 2, 0), "ANI", <<"R","2"," ">>),
      ScanRow(DateCell(1, 0), BadTime, "ANI", <<"R","1">>),
      ScanRow(DateCell(1, 0), HM(9, 1), "BUDI", <<" ","R","2">>),
      ScanRow(DateCell(2, 0), HMS(9, 0, 30), "ANI", <<"R","9">>),
      ScanRow(BadDate, HM(9, 5), "ANI", <<"R","1">>) }

\* The rows a contents file is made of; a contents file is any selection of
\* them, in this order.
ItemRows ==
    << ItemRow(<<"R","1">>, <<"b","m","-","a","k","s","2","8","-","1"," ">>, NumCell(2)),
       ItemRow(<<"R","1">>, <<"B","M","-","A","K","S","2","8","-","1">>, NumCell(-1)),
       ItemRow(<<"R","1"," ">>, <<"C","2","2","2","-","A","K","3","2","8","-","2">>, NumCell(2)),
       ItemRow(<<" ","R","2">>, NaNCell, TextCell) >>

ScanFiles == UNION {[1..n -> ScanRows] : n \in 0..MaxScans}
SkuFiles == {SelectSeq2(ItemRows, keep) : keep \in SUBSET (1..Len(ItemRows))}

\* mapping_tuple: the source column chosen for each canonical column.
GoodMapping ==
    [resi_tgl |-> "TANGGAL", resi_jam |-> "JAM", resi_nama |-> "QC",
     resi_no |-> "RESI", sku_no |-> "RESI", sku_sku |-> "KODE", sku_qty |-> "JUMLAH"]
Mappings ==
    { GoodMapping,
      [GoodMapping EXCEPT !.resi_no = "AWB"],
      [GoodMapping EXCEPT !.resi_nama = "OPERATOR"],
      [GoodMapping EXCEPT !.sku_sku = "SKU CODE"] }

\* The optional uploads: the SKU column of the special file, and the
\* (SKU, bonus) columns of the handling file.
SpecialFile == << <<"b","m","-","a","k","s","2","8","-","1"," ">>, NaNCell >>
HandlingFile == << << <<"c","2","2","2","-","a","k","3","2","8","-","2">>, NumCell(30) >>,
                   << NaNCell, NumCell(30) >>,
                   << <<"b","m","-","a","k","s","2","8","-","1">>, MissingCell >> >>
Uploads == { <<None, None>>, <<SpecialFile, HandlingFile>> }

\* The calls of build_joined_df: the valid mapping with either pair of
\* uploads, a mapping that names a missing column with the default tables.
Calls == {c \in Mappings \X Uploads : c[1] = GoodMapping \/ c[2] = <<None, None>>}

Init ==
    /\ resi_bytes \in ScanFiles
    /\ sku_bytes \in SkuFiles
    /\ \E c \in Calls :
        /\ mapping_tuple = c[1]
        /\ special_bytes = c[2][1]
        /\ handling_bytes = c[2][2]
    /\ pc = "read"
    /\ steps = <<>>
    /\ error = None
    /\ df_resi = <<>>
    /\ df_sku = <<>>
    /\ special_set_norm = {}
    /\ handling_map_norm = <<>>
    /\ df = <<>>
    /\ agg = <<>>
    /\ df_base = <<>>
    /\ df_shown = <<>>
    /\ summary = None

\* ------------------------------------------------------- header mapping
\* The rename dictionaries of lines 54-64: source column -> canonical column.
ResiRename(m) ==
    { <<m.resi_tgl, "TANGGAL SCAN">>, <<m.resi_jam, "JAM SCAN">>,
      <<m.resi_nama, "NAMA">>, <<m.resi_no, "NO RESI">> }
SkuRename(m) ==
    { <<m.sku_no, "NO RESI">>, <<m.sku_sku, "SKU">>, <<m.sku_qty, "QTY">> }

\* DataFrame.rename(columns=ren): a column the dictionary names is renamed,
\* every other column keeps its name; a key that is no column is ignored.
NewName(c, ren) ==
    IF \E p \in ren : p[1] = c THEN (CHOOSE p \in ren : p[1] = c)[2] ELSE c
RenameCols(cols, ren) == {NewName(c, ren) : c \in cols}
RenameRow(row, ren) ==
    [n \in RenameCols(DOMAIN row, ren) |->
        row[CHOOSE c \in DOMAIN row : NewName(c, ren) = n]]

\* df[c] = v on one row
SetCol(row, c, v) == [n \in DOMAIN row \cup {c} |-> IF n = c THEN v ELSE row[n]]
\* df.drop(columns=cs, errors="ignore") on one row
DropCols(row, cs) == [n \in DOMAIN row \ cs |-> row[n]]

\* A column access df[c] on a frame without column c raises KeyError(c).
KeyError(c) == [type |-> "KeyError", key |-> c]

\* ------------------------------------------------------- lookup tables
special_set_norm_default ==
    { Norm(<<"C","2","2","2","-","A","K","3","2","8","-","2">>),
      Norm(<<"C","2","2","2","-","A","K","3","2","8","-","8">>),
      Norm(<<"C","2","2","2","-","A","K","3","2","8","-","7">>),
      Norm(<<"C","2","2","2","-","A","K","3","2","8","-","1">>),
      Norm(<<"C","2","2","2","-","A","K","3","2","8","-","5">>) }
handling_map_norm_default ==
    [x \in {Norm(<<"B","M","-","A","K","S","2","8","-","1">>)} |-> 60]

\* read_special_set: the defaults without an upload; else the normalized
\* codes of the non-missing cells of the SKU column.
read_special_set(b) ==
    IF b = None THEN special_set_norm_default
    ELSE {Norm(b[i]) : i \in {j \in 1..Len(b) : b[j] # NaNCell}}

\* read_handling_map: the defaults without an upload; else
\* dict(rows of (_norm(str(sku)), bonus coerced to a number, 0 if none)),
\* where a later row of the same key replaces an earlier one.
read_handling_map(b) ==
    IF b = None THEN handling_map_norm_default
    ELSE [x \in {Norm(b[i][1]) : i \in 1..Len(b)} |->
            LET last == CHOOSE i \in 1..Len(b) :
                            /\ Norm(b[i][1]) = x
                            /\ \A j \in 1..Len(b) : Norm(b[j][1]) = x => j <= i
            IN  ToNumericFill0(b[last][2])]

\* handling_map_norm.get(x, 0.0)
MapGet(m, x) == IF x \in DOMAIN m THEN m[x] ELSE 0

\* ------------------------------------------------- lines 47-95: read, rename
\* Rename the headers, trim the shipment ids of both tables, coerce QTY,
\* read the two lookup tables.  The first column access that finds no
\* column ends the run with KeyError.
Normalize ==
    /\ pc = "read"
    /\ LET resiCols == RenameCols(ResiHeaders, ResiRename(mapping_tuple))
           skuCols  == RenameCols(SkuHeaders, SkuRename(mapping_tuple))
           resi0 == [i \in 1..Len(resi_bytes) |->
                        SetCol(RenameRow(resi_bytes[i], ResiRename(mapping_tuple)), "_IDX", i)]
           sku0  == [i \in 1..Len(sku_bytes) |->
                        RenameRow(sku_bytes[i], SkuRename(mapping_tuple))]
           resi1 == [i \in 1..Len(resi0) |->
                        SetCol(resi0[i], "NO RESI", Strip(AsStr(resi0[i]["NO RESI"])))]
           sku1  == [i \in 1..Len(sku0) |->
                        SetCol(sku0[i], "NO RESI", Strip(AsStr(sku0[i]["NO RESI"])))]
           sku2  == [i \in 1..Len(sku1) |->
                        SetCol(sku1[i], "QTY", ToNumericFill0(sku1[i]["QTY"]))]
       IN  IF "NO RESI" \notin resiCols
           THEN /\ pc' = "failed"
                /\ error' = KeyError("NO RESI")
                /\ UNCHANGED <<steps, df_resi, df_sku, special_set_norm, handling_map_norm>>
           ELSE IF "NO RESI" \notin skuCols
           THEN /\ pc' = "failed"
                /\ error' = KeyError("NO RESI")
                /\ steps' = steps \o <<"strip_resi_ids">>
                /\ df_resi' = resi1
                /\ UNCHANGED <<df_sku, special_set_norm, handling_map_norm>>
           ELSE IF "QTY" \notin skuCols
           THEN /\ pc' = "failed"
                /\ error' = KeyError("QTY")
                /\ steps' = steps \o <<"strip_resi_ids", "strip_sku_ids">>
                /\ df_resi' = resi1
                /\ df_sku' = sku1
                /\ UNCHANGED <<special_set_norm, handling_map_norm>>
           ELSE /\ pc' = "durations"
                /\ steps' = steps \o <<"strip_resi_ids", "strip_sku_ids", "coerce_qty",
                                       "read_lookups">>
                /\ df_resi' = resi1
                /\ df_sku' = sku2
                /\ special_set_norm' = read_special_set(special_bytes)
                /\ handling_map_norm' = read_handling_map(handling_bytes)
                /\ UNCHANGED error
    /\ UNCHANGED <<inputs, df, agg, df_base, df_shown, summary>>

\* ------------------------------------------- lines 97-110: scan durations
\* pd.to_datetime(cell, errors="coerce"), in seconds; NaT for what is no date.
ToDatetime(cell) ==
    IF cell.k = "date" THEN cell.day * (24 * 3600) + cell.sec ELSE NaT

\* Series.dt.normalize(): the day's midnight.
DtNormalize(ts) == IF ts = NaT THEN NaT ELSE ts - (ts % (24 * 3600))

\* Lines 99-100: "H:MM" is completed to "H:MM:00", then parsed as %H:%M:%S
\* (seconds into the day); NaT for anything else.
ParseJam(cell) ==
    LET inRange == cell.h \in 0..23 /\ cell.m \in 0..59 /\ cell.s \in 0..59
    IN  CASE cell.k = "hm" /\ inRange  -> cell.h * 3600 + cell.m * 60
          [] cell.k = "hms" /\ inRange -> cell.h * 3600 + cell.m * 60 + cell.s
          [] OTHER -> NaT

\* Line 103: date and time combined; NaT if either is.
CombineDt(tgl_norm, jam) ==
    IF tgl_norm = NaT \/ jam = NaT THEN NaT ELSE tgl_norm + jam

NameRank(n) == CHOOSE i \in 1..Len(OperatorNames) : OperatorNames[i] = n

\* Ascending order of one sort key, missing values last.
NullsLastLess(x, y) == x # NaT /\ (y = NaT \/ x < y)

\* The order of sort_values(["NAMA","TGL_NORM","SCAN_DT"]).
RowLess(a, b) ==
    \/ NameRank(a["NAMA"]) < NameRank(b["NAMA"])
    \/ /\ a["NAMA"] = b["NAMA"]
       /\ \/ NullsLastLess(a["TGL_NORM"], b["TGL_NORM"])
          \/ /\ a["TGL_NORM"] = b["TGL_NORM"]
             /\ NullsLastLess(a["SCAN_DT"], b["SCAN_DT"])

\* sort_values on several keys: a stable sort, rows of equal keys keep their order.
SortValues(rows) ==
    LET n == Len(rows)
        pos(i) == 1 + Cardinality({j \in 1..n :
                        \/ RowLess(rows[j], rows[i])
                        \/ (~RowLess(rows[i], rows[j]) /\ j < i)})
    IN  [k \in 1..n |-> rows[CHOOSE i \in 1..n : pos(i) = k]]

\* Variant: shift(-1) on the whole sorted frame, without the groupby.
GroupShift_ungrouped(rows, k) ==
    IF k < Len(rows) THEN rows[k + 1]["SCAN_DT"] ELSE NaT

\* groupby(["NAMA","TGL_NORM"])["SCAN_DT"].shift(-1) at position k: the
\* SCAN_DT of the next row of the same group; NaT for the last row of a
\* group and for a row whose group key is missing (groupby drops it).
SameGroup(a, b) ==
    /\ a["TGL_NORM"] # NaT /\ b["TGL_NORM"] # NaT
    /\ a["NAMA"] = b["NAMA"] /\ a["TGL_NORM"] = b["TGL_NORM"]
GroupShift(rows, k) ==
    LET later == {j \in (k + 1)..Len(rows) : SameGroup(rows[k], rows[j])}
    IN  IF later = {} THEN NaT
        ELSE rows[CHOOSE j \in later : \A l \in later : j <= l]["SCAN_DT"]

\* Line 107: (SCAN_NEXT - SCAN_DT) in seconds, .fillna(0).clip(lower=0)
DurasiSec(scan_dt, scan_next) ==
    IF scan_dt = NaT \/ scan_next = NaT THEN 0 ELSE Max(scan_next - scan_dt, 0)

Durations ==
    /\ pc = "durations"
    /\ LET cols == IF df_resi = <<>>
                   THEN RenameCols(ResiHeaders, ResiRename(mapping_tuple))
                   ELSE DOMAIN df_resi[1]
           parsed == [i \in 1..Len(df_resi) |->
                LET r0 == SetCol(df_resi[i], "TANGGAL SCAN", ToDatetime(df_resi[i]["TANGGAL SCAN"]))
                    r1 == SetCol(r0, "TGL_NORM", DtNormalize(r0["TANGGAL SCAN"]))
                IN  SetCol(r1, "SCAN_DT", CombineDt(r1["TGL_NORM"], ParseJam(r1["JAM SCAN"])))]
           sorted == SortValues(parsed)
           timed == [k \in 1..Len(sorted) |->
                LET sec == DurasiSec(sorted[k]["SCAN_DT"], GroupShift(sorted, k))
                IN  DropCols(SetCol(SetCol(sorted[k], "DURASI_SEC", sec), "DURASI", sec \div 60),
                             {"SCAN_NEXT", "TGL_NORM", "SCAN_DT"})]
       IN  IF "TANGGAL SCAN" \notin cols
           THEN /\ pc' = "failed" /\ error' = KeyError("TANGGAL SCAN")
                /\ UNCHANGED <<steps, df_resi>>
           ELSE IF "JAM SCAN" \notin cols
           THEN /\ pc' = "failed" /\ error' = KeyError("JAM SCAN")
                /\ UNCHANGED <<steps, df_resi>>
           ELSE IF "NAMA" \notin cols
           THEN /\ pc' = "failed" /\ error' = KeyError("NAMA")
                /\ steps' = steps \o <<"parse_timestamps">>
                /\ df_resi' = parsed
           ELSE /\ pc' = "join"
                /\ steps' = steps \o <<"parse_timestamps", "durations">>
                /\ df_resi' = timed
                /\ UNCHANGED error
    /\ UNCHANGED <<inputs, df_sku, special_set_norm, handling_map_norm,
                   df, agg, df_base, df_shown, summary>>

\* ----------------------------------------------------- lines 112-114: join
\* Variant: no join condition (a cross join).
KeyMatch_cross(l, r) == TRUE

\* The join condition of pd.merge(on="NO RESI"): equal keys.
KeyMatch(l, r) == l["NO RESI"] = r["NO RESI"]

RECURSIVE InnerMerge(_, _)
\* pd.merge(left, right, on="NO RESI", how="inner"): every pair of a left
\* and a right row of equal key, in the order of the left rows and, for one
\* left row, of the right rows.
InnerMerge(left, right) ==
    IF left = <<>> THEN <<>>
    ELSE LET n == Len(left)
             l == left[n]
             hits == SelectSeq2(right, {j \in 1..Len(right) : KeyMatch(l, right[j])})
         IN  InnerMerge(SubSeq(left, 1, n - 1), right)
                \o [j \in 1..Len(hits) |-> l @@ hits[j]]

\* Variant: without astype(str), a missing item code stays missing.
sku_norm_keepna(cell) == IF cell = NaNCell THEN NaNCell ELSE Norm(cell)

\* Line 114: df["SKU"].astype(str).map(_norm)
sku_norm(cell) == Norm(cell)

Join ==
    /\ pc = "join"
    /\ LET merged == InnerMerge(df_resi, df_sku)
           skuCols == RenameCols(SkuHeaders, SkuRename(mapping_tuple))
       IN  IF "SKU" \notin skuCols
           THEN /\ pc' = "failed" /\ error' = KeyError("SKU")
                /\ steps' = steps \o <<"join">>
                /\ df' = merged
           ELSE /\ pc' = "aggregate"
                /\ steps' = steps \o <<"join", "norm_sku">>
                /\ df' = [i \in 1..Len(merged) |->
                            SetCol(merged[i], "SKU_NORM", sku_norm(merged[i]["SKU"]))]
                /\ UNCHANGED error
    /\ UNCHANGED <<inputs, df_resi, df_sku, special_set_norm, handling_map_norm,
                   agg, df_base, df_shown, summary>>

\* ----------------------------------------- lines 116-130: one row per resi
\* The rows of one NO RESI, in the order of df.
GroupRows(rows, resi) ==
    SelectSeq2(rows, {i \in 1..Len(rows) : rows[i]["NO RESI"] = resi})

\* Line 117: ["SKU_NORM"].nunique(), which does not count a missing value
sku_unik(g) == Cardinality({g[i]["SKU_NORM"] : i \in 1..Len(g)} \ {NaNCell})

\* Line 118: ["QTY"].sum() over the joined rows of the shipment
qty_total(g) == SeqSum([i \in 1..Len(g) |-> g[i]["QTY"]])

\* Line 119: the code itself when the shipment has one distinct code
only_sku_norm(g) ==
    LET codes == {g[i]["SKU_NORM"] : i \in 1..Len(g)}
    IN  IF Cardinality(codes) = 1 THEN CHOOSE c \in codes : TRUE ELSE None

\* Line 120: ["DURASI_SEC"].first()
dur_resi_sec(g) == g[1]["DURASI_SEC"]

\* Variant: the bonus of every row, not of every distinct code.
sum_bonus_rows(sec_series, hmap) ==
    SeqSum([i \in 1..Len(sec_series) |-> MapGet(hmap, sec_series[i])])

\* Lines 122-123: sum of handling_map_norm.get(x, 0) over set(sec_series)
sum_bonus(sec_series, hmap) ==
    SetSum([x \in Range(sec_series) |-> MapGet(hmap, x)], Range(sec_series))

Aggregate ==
    /\ pc = "aggregate"
    /\ agg' = [resi \in {df[i]["NO RESI"] : i \in 1..Len(df)} |->
                LET g == GroupRows(df, resi)
                IN  [SKU_UNIK |-> sku_unik(g),
                     QTY_TOTAL |-> qty_total(g),
                     ONLY_SKU_NORM |-> only_sku_norm(g),
                     DURASI_PER_RESI_SEC |-> dur_resi_sec(g),
                     BONUS_SEC |-> sum_bonus([i \in 1..Len(g) |-> g[i]["SKU_NORM"]],
                                             handling_map_norm)]]
    /\ pc' = "classify"
    /\ steps' = steps \o <<"aggregate">>
    /\ UNCHANGED <<inputs, error, df_resi, df_sku, special_set_norm, handling_map_norm,
                   df, df_base, df_shown, summary>>

\* ------------------------------------- lines 132-153: pesanan and status
\* Seconds allowed per unit of quantity, and the largest quantity of a
\* "Biasa" mixed order.
SecondsPerQty == 30
BiasaMaxQty == 3

\* pd.isna of a count
IsNa(x) == x = NaT

\* Variant: "Biasa" below the limit only.
classify_strict(sku_u, qty_t, only_norm, special) ==
    IF IsNa(sku_u) THEN "Tidak Diketahui"
    ELSE IF sku_u = 1
         THEN (IF only_norm \in special THEN "Spesial" ELSE "Satuan")
         ELSE (IF qty_t < BiasaMaxQty THEN "Biasa" ELSE "Campuran")

\* Lines 133-138
classify(sku_u, qty_t, only_norm, special) ==
    IF IsNa(sku_u) THEN "Tidak Diketahui"
    ELSE IF sku_u = 1
         THEN (IF only_norm \in special THEN "Spesial" ELSE "Satuan")
         ELSE (IF qty_t <= BiasaMaxQty THEN "Biasa" ELSE "Campuran")

\* Variant: the rule of the docstring (line 43), the bonus added to the
\* actual duration.
status_res_docstring(actual_sec, qty_t, bonus_sec) ==
    IF actual_sec + bonus_sec <= qty_t * SecondsPerQty THEN "OK" ELSE "LAMBAT"

\* Lines 142-144
status_res(actual_sec, qty_t, bonus_sec) ==
    LET allowed_sec == qty_t * SecondsPerQty + bonus_sec
    IN  IF actual_sec <= allowed_sec THEN "OK" ELSE "LAMBAT"

Classify ==
    /\ pc = "classify"
    /\ LET res == [resi \in DOMAIN agg |->
                    [PESANAN |-> classify(agg[resi].SKU_UNIK, agg[resi].QTY_TOTAL,
                                          agg[resi].ONLY_SKU_NORM, special_set_norm),
                     STATUS |-> status_res(agg[resi].DURASI_PER_RESI_SEC,
                                           agg[resi].QTY_TOTAL, agg[resi].BONUS_SEC)]]
       IN  df_base' = [i \in 1..Len(df) |->
                DropCols(SetCol(SetCol(df[i], "PESANAN", res[df[i]["NO RESI"]].PESANAN),
                                "STATUS", res[df[i]["NO RESI"]].STATUS),
                         {"DURASI_SEC", "SKU_NORM"})]
    /\ pc' = "done"
    /\ steps' = steps \o <<"classify", "project">>
    /\ UNCHANGED <<inputs, error, df_resi, df_sku, special_set_norm, handling_map_norm,
                   df, agg, df_shown, summary>>

\* --------------------------------- lines 218-275: filters and the summary
\* date.today(), the date offered when no row has a valid date.
Today == 3

Jenis == {"Semua", "Satuan", "Spesial", "Biasa", "Campuran"}

\* Line 221: pd.to_datetime(df_base["TANGGAL SCAN"]).dt.date
DateOf(ts) == IF ts = NaT THEN NaT ELSE ts \div (24 * 3600)

\* Lines 222-231: the dates the date input accepts
DateChoices(rows) ==
    LET valid == {DateOf(rows[i]["TANGGAL SCAN"]) : i \in 1..Len(rows)} \ {NaT}
    IN  IF valid = {} THEN {Today}
        ELSE {d \in 0..Today : /\ \E lo \in valid : lo <= d
                               /\ \E hi \in valid : d <= hi}

\* Lines 239-244: the three filters; no name selected and "Semua" filter nothing.
ApplyFilters(rows, sel_date, sel_names, jenis) ==
    SelectSeq2(rows, {i \in 1..Len(rows) :
        /\ DateOf(rows[i]["TANGGAL SCAN"]) = sel_date
        /\ (sel_names # {} => rows[i]["NAMA"] \in sel_names)
        /\ (jenis # "Semua" => rows[i]["PESANAN"] = jenis)})

\* Variant: without drop_duplicates, one row per joined row.
resi_level_rows(rows) ==
    [i \in 1..Len(rows) |-> [n \in {"NO RESI", "PESANAN", "STATUS"} |-> rows[i][n]]]

\* Line 247: [["NO RESI","PESANAN","STATUS"]].drop_duplicates(subset="NO RESI"):
\* the first row of every NO RESI.
resi_level(rows) ==
    LET firsts == SelectSeq2(rows, {i \in 1..Len(rows) :
                      \A j \in 1..(i - 1) : rows[j]["NO RESI"] # rows[i]["NO RESI"]})
    IN  [i \in 1..Len(firsts) |->
            [n \in {"NO RESI", "PESANAN", "STATUS"} |-> firsts[i][n]]]

\* (column == value).sum() and value_counts().get(value, 0)
CountEq(rows, col, value) == Cardinality({i \in 1..Len(rows) : rows[i][col] = value})

Summarise ==
    /\ pc = "done"
    /\ \E sel_date \in DateChoices(df_base),
          sel_names \in SUBSET {df_base[i]["NAMA"] : i \in 1..Len(df_base)},
          jenis \in Jenis :
        LET shown == ApplyFilters(df_base, sel_date, sel_names, jenis)
            level == resi_level(shown)
            total_resi == Cardinality({level[i]["NO RESI"] : i \in 1..Len(level)})
            ok_count == CountEq(level, "STATUS", "OK")
            bad_count == CountEq(level, "STATUS", "LAMBAT")
        IN  /\ df_shown' = shown
            /\ summary' = [Tanggal |-> sel_date,
                           TotalResi |-> total_resi,
                           Satuan |-> CountEq(level, "PESANAN", "Satuan"),
                           Spesial |-> CountEq(level, "PESANAN", "Spesial"),
                           Biasa |-> CountEq(level, "PESANAN", "Biasa"),
                           Campuran |-> CountEq(level, "PESANAN", "Campuran"),
                           OK |-> ok_count,
                           LAMBAT |-> bad_count,
                           warning |-> (total_resi # ok_count + bad_count)]
    /\ pc' = "shown"
    /\ UNCHANGED <<inputs, steps, error, df_resi, df_sku, special_set_norm,
                   handling_map_norm, df, agg, df_base>>

Next == Normalize \/ Durations \/ Join \/ Aggregate \/ Classify \/ Summarise

Spec == Init /\ [][Next]_vars

\* ====================================================================
\* Properties
\* ====================================================================
AfterNormalize == pc \in {"durations", "join", "aggregate", "classify", "done", "shown"}
AfterDurations == pc \in {"join", "aggregate", "classify", "done", "shown"}
AfterAggregate == pc \in {"classify", "done", "shown"}
AfterClassify  == pc \in {"done", "shown"}

\* The shipment ids of a frame.
ResiOf(rows) == {rows[i]["NO RESI"] : i \in 1..Len(rows)}

Thm_C2_OrderType ==
    AfterClassify =>
        \A i \in 1..Len(df_base) :
            LET a == agg[df_base[i]["NO RESI"]]
                t == df_base[i]["PESANAN"]
            IN  /\ a.SKU_UNIK = NaT => t = "Tidak Diketahui"
                /\ a.SKU_UNIK = 1 =>
                      /\ a.ONLY_SKU_NORM \in special_set_norm => t = "Spesial"
                      /\ a.ONLY_SKU_NORM \notin special_set_norm => t = "Satuan"
                /\ a.SKU_UNIK > 1 =>
                      /\ a.QTY_TOTAL <= 3 => t = "Biasa"
                      /\ a.QTY_TOTAL > 3 => t = "Campuran"

\* A mixed shipment of total quantity exactly 3 (Biasa) in a run that also
\* holds a one-code shipment.
Wit_C2_BiasaAtThree ==
    /\ AfterClassify
    /\ \E i \in 1..Len(df_base) :
        /\ agg[df_base[i]["NO RESI"]].SKU_UNIK = 2
        /\ agg[df_base[i]["NO RESI"]].QTY_TOTAL = 3
        /\ df_base[i]["PESANAN"] = "Biasa"
    /\ \E i \in 1..Len(df_base) : df_base[i]["PESANAN"] \in {"Satuan", "Spesial"}

\* ---------------------------------------------------------------- C3
\* The timestamp and the (operator, day) group of scan row i of the upload.
RawTglNorm(i) == DtNormalize(ToDatetime(resi_bytes[i][mapping_tuple.resi_tgl]))
RawScanDt(i) == CombineDt(RawTglNorm(i), ParseJam(resi_bytes[i][mapping_tuple.resi_jam]))
RawSameGroup(i, j) ==
    /\ resi_bytes[i][mapping_tuple.resi_nama] = resi_bytes[j][mapping_tuple.resi_nama]
    /\ RawTglNorm(i) = RawTglNorm(j)
\* Where scan row i of the upload stands in df_resi.
DurOf(i) == CHOOSE k \in 1..Len(df_resi) : df_resi[k]["_IDX"] = i
\* The gap from row i to the next later timestamp of its group, 0 if none.
GapAfter(i) ==
    LET later == {RawScanDt(j) : j \in {l \in 1..Len(resi_bytes) :
                        /\ RawSameGroup(i, l)
                        /\ RawScanDt(l) # NaT
                        /\ RawScanDt(l) > RawScanDt(i)}}
    IN  IF later = {} THEN 0
        ELSE (CHOOSE t \in later : \A u \in later : t <= u) - RawScanDt(i)

\* C3: the duration of a scan is the time to the scan that follows it in its
\* own (operator, day) group in ascending timestamp order, never negative;
\* 0 for the last scan of a group and for a row whose own or whose
\* successor's timestamp did not parse.  Of several scans of one group with
\* the same timestamp, one is followed by the next later scan and the
\* others by each other.  Other operators and other days play no part.
Thm_C3_Duration ==
    AfterDurations =>
        /\ Len(df_resi) = Len(resi_bytes)
        /\ \A i \in 1..Len(resi_bytes) :
            LET d == df_resi[DurOf(i)]["DURASI_SEC"]
                ties == {j \in 1..Len(resi_bytes) :
                            RawSameGroup(i, j) /\ RawScanDt(j) = RawScanDt(i)}
            IN  /\ d >= 0
                /\ RawScanDt(i) = NaT => d = 0
                /\ RawScanDt(i) # NaT =>
                      /\ d \in {0, GapAfter(i)}
                      /\ Cardinality({j \in ties :
                            df_resi[DurOf(j)]["DURASI_SEC"] = GapAfter(i)})
                           = (IF GapAfter(i) = 0 THEN Cardinality(ties) ELSE 1)

\* The later scan comes first in the upload and the earlier one gets the
\* 120 s between them.
Wit_C3_SortedGap ==
    /\ AfterDurations
    /\ Len(resi_bytes) = 2
    /\ RawScanDt(1) # NaT /\ RawScanDt(2) # NaT /\ RawScanDt(2) < RawScanDt(1)
    /\ df_resi[DurOf(2)]["DURASI_SEC"] = 120
    /\ df_resi[DurOf(1)]["DURASI_SEC"] = 0

\* ---------------------------------------------------------------- C4
\* The shipment ids of the filtered output that have a row of the status.
ShownWithStatus(st) ==
    {df_shown[i]["NO RESI"] : i \in {j \in 1..Len(df_shown) : df_shown[j]["STATUS"] = st}}

\* C4: whatever the date, name and order-type filters, the total number of
\* shipments of the summary is the number of OK plus the number of LAMBAT
\* shipments, each counted over the distinct shipment ids of the filtered
\* output, and the mismatch warning is not raised.
Thm_C4_StatusTotality ==
    pc = "shown" =>
        /\ summary.TotalResi = summary.OK + summary.LAMBAT
        /\ summary.TotalResi = Cardinality(ResiOf(df_shown))
        /\ summary.OK = Cardinality(ShownWithStatus("OK"))
        /\ summary.LAMBAT = Cardinality(ShownWithStatus("LAMBAT"))
        /\ ~summary.warning

\* A filtered output of more rows than shipments, with both statuses.
Wit_C4_BothStatuses ==
    /\ pc = "shown"
    /\ summary.OK >= 1 /\ summary.LAMBAT >= 1
    /\ Len(df_shown) > summary.TotalResi

\* ---------------------------------------------------------------- C5
\* The quantities of the contents rows of a shipment, after normalization.
ContentsQty(resi) ==
    SeqSum([i \in 1..Len(df_sku) |->
                IF df_sku[i]["NO RESI"] = resi THEN df_sku[i]["QTY"] ELSE 0])

\* C5: the total quantity of a shipment is the sum of the quantities of its
\* rows in the contents table, however many scan rows carry its id (stated
\* for the shipments whose quantities are all positive).
CE_C5_QtyCountedOnce ==
    AfterAggregate =>
        \A r \in DOMAIN agg :
            (\A i \in 1..Len(df_sku) : df_sku[i]["NO RESI"] = r => df_sku[i]["QTY"] > 0)
                => agg[r].QTY_TOTAL = ContentsQty(r)

\* ---------------------------------------------------------------- C6
\* The distinct normalized item codes of a shipment in the contents table.
ContentsCodes(resi) ==
    {Norm(df_sku[i]["SKU"]) : i \in {j \in 1..Len(df_sku) : df_sku[j]["NO RESI"] = resi}}

\* C6: the handling bonus of a shipment is the sum, over the distinct
\* normalized item codes of the shipment, of the configured bonus of the
\* code (0 for a code the handling map lacks): no quantity and no repeated
\* row of a code changes it.
Thm_C6_BonusPerDistinctCode ==
    AfterAggregate =>
        \A r \in DOMAIN agg :
            agg[r].BONUS_SEC =
                SetSum([c \in ContentsCodes(r) |->
                            IF c \in DOMAIN handling_map_norm THEN handling_map_norm[c] ELSE 0],
                       ContentsCodes(r))

\* One code with a bonus of 60 on several joined rows of a shipment, of
\* different quantities, and a second code without bonus.
Wit_C6_RepeatedCode ==
    /\ AfterAggregate
    /\ \E r \in DOMAIN agg :
        /\ agg[r].BONUS_SEC = 60
        /\ Cardinality(ContentsCodes(r)) = 2
        /\ \E i, j \in 1..Len(df) :
            /\ i # j
            /\ df[i]["NO RESI"] = r /\ df[j]["NO RESI"] = r
            /\ df[i]["SKU_NORM"] = df[j]["SKU_NORM"]
            /\ df[i]["QTY"] # df[j]["QTY"]
            /\ MapGet(handling_map_norm, df[i]["SKU_NORM"]) = 60

\* ---------------------------------------------------------------- C7
\* The trimmed shipment ids of the two uploads.
ScanIds == {Strip(AsStr(resi_bytes[i][mapping_tuple.resi_no])) : i \in 1..Len(resi_bytes)}
ContentsIds == {Strip(AsStr(sku_bytes[i][mapping_tuple.sku_no])) : i \in 1..Len(sku_bytes)}

\* C7: every output row has a shipment id that, trimmed, is in the scan
\* table and in the contents table; ids of one table only give no output
\* row and count in no summary figure; with no common id the run does not
\* fail, the output is empty and every count is 0.
Thm_C7_JoinSoundness ==
    /\ AfterClassify =>
        /\ ResiOf(df_base) \subseteq ScanIds \cap ContentsIds
        /\ ScanIds \cap ContentsIds = {} => df_base = <<>>
    /\ pc = "shown" =>
        /\ ResiOf(df_shown) \subseteq ScanIds \cap ContentsIds
        /\ summary.TotalResi <= Cardinality(ScanIds \cap ContentsIds)
        /\ ScanIds \cap ContentsIds = {} =>
              /\ summary.TotalResi = 0 /\ summary.OK = 0 /\ summary.LAMBAT = 0
              /\ summary.Satuan = 0 /\ summary.Spesial = 0
              /\ summary.Biasa = 0 /\ summary.Campuran = 0
    /\ pc = "failed" => mapping_tuple # GoodMapping

\* Scans and contents of different shipments only: an empty output and a
\* summary of zeros.
Wit_C7_NothingJoins ==
    /\ pc = "shown"
    /\ Len(resi_bytes) = 2 /\ Len(sku_bytes) >= 2
    /\ ScanIds \cap ContentsIds = {}
    /\ df_base = <<>>
    /\ summary.TotalResi = 0

\* ---------------------------------------------------------------- C8
\* C8: a mapping that leaves a required column without a source column ends
\* the run before any normalization, duration, join or aggregation step
\* (the claim has the error be a SchemaError; the run ends with KeyError).
CE_C8_FailsBeforeAnyStep ==
    pc = "failed" => steps = <<>>

\* ---------------------------------------------------------------- C9
\* C9: after normalization no contents row has a negative quantity, and no
\* shipment a negative total quantity.
CE_C9_QtyNonNegative ==
    /\ AfterNormalize => \A i \in 1..Len(df_sku) : df_sku[i]["QTY"] >= 0
    /\ AfterAggregate => \A r \in DOMAIN agg : agg[r].QTY_TOTAL * 30 >= 0

\* --------------------------------------------------------------- C10
\* C10: every joined shipment has at least one distinct item code, no
\* shipment is of type Tidak Diketahui, and the four order-type counts of
\* the summary add up to its total, whatever the filters.
Thm_C10_NoUnknownType ==
    /\ AfterAggregate => \A r \in DOMAIN agg : agg[r].SKU_UNIK >= 1
    /\ AfterClassify =>
        \A i \in 1..Len(df_base) :
            df_base[i]["PESANAN"] \in {"Satuan", "Spesial", "Biasa", "Campuran"}
    /\ pc = "shown" =>
        summary.Satuan + summary.Spesial + summary.Biasa + summary.Campuran
            = summary.TotalResi

\* A shipment whose only contents row has no item code is shown and counted.
Wit_C10_MissingCode ==
    /\ pc = "shown"
    /\ summary.TotalResi >= 1
    /\ \E i \in 1..Len(df_shown) :
        /\ df_shown[i]["SKU"] = NaNCell
        /\ agg[df_shown[i]["NO RESI"]].SKU_UNIK = 1

====
